---- MODULE Spec2Model ----
(***************************************************************************)
(* Model of src/model/modules/bandsequence.py (RNNModule,                  *)
(* BandSequenceModelModule) and of src/model/pl_model.py (compute_losses,  *)
(* tracked_gradient_global_only).                                          *)
(*                                                                         *)
(* Tensors are records [ok, shape, data, err]: shape is the tuple of axis  *)
(* sizes, data the elements in row-major (contiguous) order.  An element   *)
(* is a formal sum, the set of its summands: the input element it carries  *)
(* (kind "x") and the contributions the normalize/recur/project paths      *)
(* added to it (kind "f", one per block with non-zero weights, with the    *)
(* batch rows it was computed from and the initial recurrent state used).  *)
(* A raised exception is a record with ok = FALSE.                         *)
(*                                                                         *)
(* The torch primitives (GroupNorm, RNN/GRU/LSTM, Linear, view, permute)   *)
(* are modelled by their documented shape contracts on tensors whose axes  *)
(* all have positive size and whose values are finite.                     *)
(***************************************************************************)
EXTENDS Integers, Sequences, FiniteSets, TLC

VARIABLES
    zero_hidden_ok, \* whether this torch build accepts hidden_size = 0
    pc,             \* "new" | "built" | "ctor_error" | "forward" | "done" | "error"
    cfg,            \* the arguments BandSequenceModelModule was constructed with
    bsrnn,          \* self.bsrnn: the pairs <<rnn_across_t, rnn_across_k>>
    x0,             \* the argument of the forward call in progress (or last made)
    cur,            \* the local x of BandSequenceModelModule.forward
    layer,          \* the loop index i of forward (1-based)
    half,           \* the block of pair i to run next (1 or 2)
    xin,            \* the argument of the RNNModule.forward call made last
    ran,            \* <<layer, half>> of the block that call ran on (<<0, 0>>: none yet)
    called,         \* whether a forward call on this stack has returned or raised
    self0,          \* self.bsrnn as it was when the forward call in progress began
    loss_args,      \* the arguments of the compute_losses call made last
    loss_ret,       \* what that call returned
    grad_norm,      \* pl.utilities.grad_norm: how many wrappers surround the original
    models,         \* PLModel objects constructed so far
    norms_ret       \* what the last call of pl.utilities.grad_norm returned

vars == <<zero_hidden_ok, pc, cfg, bsrnn, x0, cur, layer, half, xin, ran, called, self0,
          loss_args, loss_ret, grad_norm, models, norms_ret>>

stackVars == <<zero_hidden_ok, pc, cfg, bsrnn, x0, cur, layer, half, xin, ran, called, self0>>
lossVars == <<loss_args, loss_ret>>
gradVars == <<grad_norm, models, norms_ret>>

\* ------------------------------------------------------------------ bounds
MaxDim == 2
MaxBatch == 2
MaxLayers == 1
MaxLen == 2
MaxVal == 1
MaxModels == 3

\* ----------------------------------------------------------------- tensors
RECURSIVE Numel(_)
Numel(shape) == IF shape = <<>> THEN 1 ELSE Head(shape) * Numel(Tail(shape))

Err(kind) == [ok |-> FALSE, shape |-> <<>>, data |-> <<>>, err |-> kind]

Tensor(shape, data) == [ok |-> TRUE, shape |-> shape, data |-> data, err |-> ""]

\* The batch rows an element was computed from.
DepOf(e) == UNION {s.dep : s \in e}

\* A symbolic input of the given shape: element i is the atom i of batch row
\* (i-1) \div (elements per row).
InputTensor(shape) ==
    LET per == Numel(Tail(shape))
    IN Tensor(shape,
              [i \in 1..Numel(shape) |->
                  {[kind |-> "x", id |-> i, dep |-> {(i - 1) \div per}, h0 |-> 0]}])

\* -------------------------------------------------------- RNNModule.forward
GroupNormUnchecked(blk, x) ==
    LET per == Numel(Tail(x.shape))
        row == [b \in 0..(x.shape[1] - 1) |->
                   UNION {DepOf(x.data[b * per + m]) : m \in 1..per}]
    IN Tensor(x.shape, [i \in 1..Numel(x.shape) |-> row[(i - 1) \div per]])

GroupNormAcrossBatch(blk, x) ==
    IF Len(x.shape) < 2 \/ x.shape[2] # blk.group_dim_size
    THEN Err("RuntimeError")
    ELSE LET all == UNION {DepOf(x.data[m]) : m \in 1..Numel(x.shape)}
         IN Tensor(x.shape, [i \in 1..Numel(x.shape) |-> all])

\* self.groupnorm(x): GroupNorm(1, group_dim_size) wants axis 1 to hold
\* num_channels entries; one group, so every element is normalized with the
\* statistics of its whole batch row.
GroupNorm(blk, x) ==
    IF Len(x.shape) < 2 \/ x.shape[2] # blk.group_dim_size
    THEN Err("RuntimeError")
    ELSE LET per == Numel(Tail(x.shape))
             row == [b \in 0..(x.shape[1] - 1) |->
                        UNION {DepOf(x.data[b * per + m]) : m \in 1..per}]
         IN Tensor(x.shape, [i \in 1..Numel(x.shape) |-> row[(i - 1) \div per]])

\* Tensor.view on a contiguous tensor: the same data under a new shape.
View(x, shape) ==
    IF Numel(shape) # Numel(x.shape)
    THEN Err("RuntimeError")
    ELSE Tensor(shape, x.data)

\* Steps of the sequence an output step l (0-based) of the recurrence reads.
RnnSteps(blk, l, L) == IF blk.bidirectional THEN 0..(L - 1) ELSE 0..l

\* self.rnn(out), batch_first: (R, L, input_size) -> (R, L, D * hidden_size),
\* each pseudo-batch row on its own.
Rnn(blk, x) ==
    IF Len(x.shape) # 3 \/ x.shape[3] # blk.input_dim_size
    THEN Err("RuntimeError")
    ELSE LET R == x.shape[1]
             L == x.shape[2]
             N == x.shape[3]
             W == blk.rnn_out
         IN Tensor(<<R, L, W>>,
                   [i \in 1..(R * L * W) |->
                       LET r == (i - 1) \div (L * W)
                           l == ((i - 1) \div W) % L
                       IN UNION {x.data[(r * L + l2) * N + n + 1] :
                                   l2 \in RnnSteps(blk, l, L), n \in 0..(N - 1)}])

\* self.fc(out): Linear(fc_in, input_dim_size) on the last axis.
Fc(blk, x) ==
    IF x.shape[Len(x.shape)] # blk.fc_in
    THEN Err("RuntimeError")
    ELSE LET R == x.shape[1]
             L == x.shape[2]
             W == x.shape[3]
             N == blk.input_dim_size
         IN Tensor(<<R, L, N>>,
                   [i \in 1..(R * L * N) |->
                       LET rl == (i - 1) \div N
                       IN UNION {x.data[rl * W + h + 1] : h \in 0..(W - 1)}])

\* What the normalize/recur/project path adds to one element: nothing when
\* the recurrent and projection weights and biases are all zero (params = 0).
Contribution(blk, dep, h0) ==
    IF blk.params = 0
    THEN {}
    ELSE {[kind |-> "f", id |-> blk.params, dep |-> dep, h0 |-> h0]}

AddResidualNone(blk, y, x, h0) ==
    IF y.shape # x.shape
    THEN Err("RuntimeError")
    ELSE Tensor(x.shape,
                [i \in 1..Numel(x.shape) |-> Contribution(blk, y.data[i], h0)])

\* out.view(B, K, T, N) + x
AddResidual(blk, y, x, h0) ==
    IF y.shape # x.shape
    THEN Err("RuntimeError")
    ELSE Tensor(x.shape,
                [i \in 1..Numel(x.shape) |->
                    x.data[i] \cup Contribution(blk, y.data[i], h0)])

\* out.permute(0, 2, 1, 3).contiguous()
PermuteIdentity(x) == x

Permute(x) ==
    LET B == x.shape[1]
        K == x.shape[2]
        T == x.shape[3]
        N == x.shape[4]
    IN Tensor(<<B, T, K, N>>,
              [i \in 1..(B * K * T * N) |->
                  LET n == (i - 1) % N
                      k == ((i - 1) \div N) % K
                      t == ((i - 1) \div (N * K)) % T
                      b == (i - 1) \div (N * K * T)
                  IN x.data[((b * K + k) * T + t) * N + n + 1]])

\* self.rnn(out) is called without hx, so the recurrence starts from zeros;
\* its final state (the "_" of "out, _ =") is dropped.
InitialStateCarried(blk) == IF called THEN 1 ELSE 0

InitialState(blk) == 0

\* RNNModule.forward; h0 is the initial state the recurrence starts from.
RNNModuleForwardFrom(blk, x, h0) ==
    IF Len(x.shape) # 4
    THEN Err("ValueError")
    ELSE LET B == x.shape[1]
             K == x.shape[2]
             T == x.shape[3]
             N == x.shape[4]
             gn == GroupNorm(blk, x)
             v3 == IF gn.ok THEN View(gn, <<B * K, T, N>>) ELSE gn
             rn == IF v3.ok THEN Rnn(blk, v3) ELSE v3
             fc == IF rn.ok THEN Fc(blk, rn) ELSE rn
             v4 == IF fc.ok THEN View(fc, <<B, K, T, N>>) ELSE fc
             sm == IF v4.ok THEN AddResidual(blk, v4, x, h0) ELSE v4
         IN IF sm.ok THEN Permute(sm) ELSE sm

RNNModuleForward(blk, x) == RNNModuleForwardFrom(blk, x, InitialState(blk))

\* ------------------------------------------------------- RNNModule.__init__
\* The names getattr(nn, rnn_type) is tried on, those torch.nn has, and those
\* of them that are recurrent classes taking (input_size, hidden_size,
\* batch_first=, bidirectional=).
RnnTypes == {"LSTM", "GRU", "RNN", "lstm", "Linear"}
NnNames == {"LSTM", "GRU", "RNN", "Linear"}
RnnClasses == {"LSTM", "GRU", "RNN"}

\* RNNModule.__init__ validates nothing itself: it fails exactly where one of
\* the three torch constructors it calls raises.  params is the identity of
\* the freshly initialised weights (0 stands for all-zero weights).
RNNModuleInit(group_dim_size, input_dim_size, hidden_dim_size, rnn_type, bidirectional, params) ==
    LET fc_in == IF bidirectional THEN hidden_dim_size * 2 ELSE hidden_dim_size
    IN  IF group_dim_size < 0
        THEN [ok |-> FALSE, err |-> "RuntimeError"]       \* nn.GroupNorm(1, group_dim_size)
        ELSE IF rnn_type \notin NnNames
        THEN [ok |-> FALSE, err |-> "AttributeError"]     \* getattr(nn, rnn_type)
        ELSE IF rnn_type \notin RnnClasses
        THEN [ok |-> FALSE, err |-> "TypeError"]          \* batch_first= is no argument of it
        ELSE IF input_dim_size < 0 \/ hidden_dim_size < 0
        THEN [ok |-> FALSE, err |-> "RuntimeError"]
        ELSE IF hidden_dim_size = 0 /\ ~zero_hidden_ok
        THEN [ok |-> FALSE, err |-> "ValueError"]
        ELSE [ok |-> TRUE, err |-> "",
              blk |-> [group_dim_size |-> group_dim_size,
                       input_dim_size |-> input_dim_size,
                       hidden_dim_size |-> hidden_dim_size,
                       rnn_type |-> rnn_type,
                       bidirectional |-> bidirectional,
                       rnn_out |-> IF bidirectional THEN hidden_dim_size * 2 ELSE hidden_dim_size,
                       fc_in |-> fc_in,
                       params |-> params]]

\* ----------------------------------------- BandSequenceModelModule.__init__
LayerPairSwapped(a, n) ==
    LET rnn_across_t == RNNModuleInit(a.t_timesteps, a.input_dim_size, a.hidden_dim_size,
                                      a.rnn_type, a.bidirectional, 2 * n - 1)
        rnn_across_k == RNNModuleInit(a.k_subbands, a.input_dim_size, a.hidden_dim_size,
                                      a.rnn_type, a.bidirectional, 2 * n)
    IN  IF ~rnn_across_t.ok THEN [ok |-> FALSE, err |-> rnn_across_t.err, pair |-> <<>>]
        ELSE IF ~rnn_across_k.ok THEN [ok |-> FALSE, err |-> rnn_across_k.err, pair |-> <<>>]
        ELSE [ok |-> TRUE, err |-> "", pair |-> <<rnn_across_t.blk, rnn_across_k.blk>>]

\* The pair appended by iteration n of the loop.
LayerPair(a, n) ==
    LET rnn_across_t == RNNModuleInit(a.k_subbands, a.input_dim_size, a.hidden_dim_size,
                                      a.rnn_type, a.bidirectional, 2 * n - 1)
        rnn_across_k == RNNModuleInit(a.t_timesteps, a.input_dim_size, a.hidden_dim_size,
                                      a.rnn_type, a.bidirectional, 2 * n)
    IN  IF ~rnn_across_t.ok THEN [ok |-> FALSE, err |-> rnn_across_t.err, pair |-> <<>>]
        ELSE IF ~rnn_across_k.ok THEN [ok |-> FALSE, err |-> rnn_across_k.err, pair |-> <<>>]
        ELSE [ok |-> TRUE, err |-> "", pair |-> <<rnn_across_t.blk, rnn_across_k.blk>>]

\* for _ in range(num_layers): the range is empty for num_layers <= 0, and
\* the first iteration that raises ends the construction.
BandSequenceModelModuleInit(a) ==
    IF \E n \in 1..a.num_layers : ~LayerPair(a, n).ok
    THEN [ok |-> FALSE, err |-> LayerPair(a, 1).err, bsrnn |-> <<>>]
    ELSE [ok |-> TRUE, err |-> "",
          bsrnn |-> [n \in 1..a.num_layers |-> LayerPair(a, n).pair]]

\* ------------------------------------------ BandSequenceModelModule.forward
RECURSIVE ForwardFrom(_, _, _)
\* x after pairs n .. len(self.bsrnn) of the loop; an exception ends the call.
ForwardFrom(blocks, n, t) ==
    IF n > Len(blocks) \/ ~t.ok
    THEN t
    ELSE LET a == RNNModuleForward(blocks[n][1], t)
             b == IF a.ok THEN RNNModuleForward(blocks[n][2], a) ELSE a
         IN ForwardFrom(blocks, n + 1, b)

\* BandSequenceModelModule.forward as one function of (self.bsrnn, x).
StackForward(blocks, t) == ForwardFrom(blocks, 1, t)

\* ------------------------------------------------------------------ actions
NoTensor == Err("")

\* The constructor arguments of the forward-pass specification: the
\* configurations torch accepts, and every num_layers from -1.
Args ==
    [k_subbands : 1..MaxDim, t_timesteps : 1..MaxDim, input_dim_size : 1..MaxDim,
     hidden_dim_size : {1}, rnn_type : {"LSTM"}, bidirectional : BOOLEAN,
     num_layers : -1..MaxLayers]

\* Every argument tuple of the construction specification, valid or not.
AnyArgs ==
    [k_subbands : -1..MaxDim, t_timesteps : -1..MaxDim, input_dim_size : -1..MaxDim,
     hidden_dim_size : -1..1, rnn_type : RnnTypes, bidirectional : BOOLEAN,
     num_layers : -1..MaxLayers]

\* The shapes forward is called with: the Layout-T shape of the configuration
\* for each batch size; that shape with axes 1 and 2 swapped, and with one
\* axis a size off; a 3-D and a 5-D shape.
InputShapes(a) ==
    LET K == a.k_subbands
        T == a.t_timesteps
        N == a.input_dim_size
    IN  {<<b, K, T, N>> : b \in 1..MaxBatch}
          \cup {<<1, T, K, N>>, <<1, K + 1, T, N>>, <<1, K, T + 1, N>>, <<1, K, T, N + 1>>}
          \cup {<<1, K, T>>, <<1, K, T, N, 1>>}

StackInit ==
    /\ pc = "new"
    /\ cfg = [k_subbands |-> 0, t_timesteps |-> 0, input_dim_size |-> 0,
              hidden_dim_size |-> 0, rnn_type |-> "", bidirectional |-> FALSE,
              num_layers |-> 0]
    /\ bsrnn = <<>>
    /\ x0 = NoTensor
    /\ cur = NoTensor
    /\ layer = 0
    /\ half = 0
    /\ xin = NoTensor
    /\ ran = <<0, 0>>
    /\ called = FALSE
    /\ self0 = <<>>

\* model = BandSequenceModelModule(**a)
Construct(S) ==
    /\ pc = "new"
    /\ \E a \in S :
         LET r == BandSequenceModelModuleInit(a)
         IN /\ pc' = IF r.ok THEN "built" ELSE "ctor_error"
            /\ bsrnn' = r.bsrnn
            /\ cfg' = a
    /\ UNCHANGED <<zero_hidden_ok, x0, cur, layer, half, xin, ran, called, self0>>
    /\ UNCHANGED <<lossVars, gradVars>>

Idle == pc \in {"built", "done", "error"}

\* Outside forward, the weights of block <<n, h>> are set to zero (by the
\* training procedure, or by a test); what the last call returned is dropped.
ZeroParams(n, h) ==
    /\ Idle
    /\ n \in 1..Len(bsrnn)
    /\ bsrnn[n][h].params # 0
    /\ bsrnn' = [bsrnn EXCEPT ![n][h].params = 0]
    /\ pc' = "built"
    /\ x0' = NoTensor
    /\ cur' = NoTensor
    /\ xin' = NoTensor
    /\ ran' = <<0, 0>>
    /\ self0' = <<>>
    /\ layer' = 0
    /\ half' = 0
    /\ UNCHANGED <<zero_hidden_ok, cfg, called>>
    /\ UNCHANGED <<lossVars, gradVars>>

\* model(x): forward is entered with its argument.
Call(shape) ==
    /\ Idle
    /\ pc' = "forward"
    /\ x0' = InputTensor(shape)
    /\ cur' = InputTensor(shape)
    /\ layer' = 1
    /\ half' = 1
    /\ xin' = NoTensor
    /\ ran' = <<0, 0>>
    /\ self0' = bsrnn
    /\ UNCHANGED <<zero_hidden_ok, cfg, bsrnn, called>>
    /\ UNCHANGED <<lossVars, gradVars>>

\* One RNNModule.forward of x = self.bsrnn[i](x): nn.Sequential runs
\* rnn_across_t, then rnn_across_k on its result.
ApplyBlock ==
    /\ pc = "forward"
    /\ layer <= Len(bsrnn)
    /\ LET r == RNNModuleForward(bsrnn[layer][half], cur)
       IN /\ cur' = r
          /\ pc' = IF r.ok THEN "forward" ELSE "error"
          /\ called' = (called \/ ~r.ok)
    /\ xin' = cur
    /\ ran' = <<layer, half>>
    /\ layer' = IF half = 2 THEN layer + 1 ELSE layer
    /\ half' = IF half = 2 THEN 1 ELSE 2
    /\ UNCHANGED <<zero_hidden_ok, cfg, bsrnn, x0, self0>>
    /\ UNCHANGED <<lossVars, gradVars>>

\* return x
Return ==
    /\ pc = "forward"
    /\ layer > Len(bsrnn)
    /\ pc' = "done"
    /\ called' = TRUE
    /\ UNCHANGED <<zero_hidden_ok, cfg, bsrnn, x0, cur, layer, half, xin, ran, self0>>
    /\ UNCHANGED <<lossVars, gradVars>>

\* --------------------------------------------------- PLModel.compute_losses
\* Losses are exact fractions <<numerator, denominator>>.
RatAdd(p, q) == <<p[1] * q[2] + q[1] * p[2], p[2] * q[2]>>

Abs(n) == IF n < 0 THEN -n ELSE n

RECURSIVE SumAbsDiff(_, _)
SumAbsDiff(u, v) ==
    IF u = <<>> THEN 0 ELSE Abs(Head(u) - Head(v)) + SumAbsDiff(Tail(u), Tail(v))

\* nn.L1Loss(): the mean of the absolute differences.
L1Loss(u, v) == <<SumAbsDiff(u, v), Len(u)>>

\* tensor.real and tensor.imag of a complex tensor.
Real(z) == [n \in 1..Len(z) |-> z[n].re]
Imag(z) == [n \in 1..Len(z) |-> z[n].im]

RECURSIVE SumFrom(_, _)
\* The builtin sum: the start value plus each item, left to right.
SumFrom(start, items) ==
    IF items = <<>> THEN start ELSE SumFrom(RatAdd(start, Head(items).val), Tail(items))

\* sum(loss_dict.values())
SumValuesButLast(loss_dict) == SumFrom(<<0, 1>>, SubSeq(loss_dict, 1, Len(loss_dict) - 1))

SumValues(loss_dict) == SumFrom(<<0, 1>>, loss_dict)

\* PLModel.compute_losses: <<loss, loss_dict>>, the dict as its items in
\* insertion order.
compute_losses(tgt_freq_hat, tgt_freq, tgt_time_hat, tgt_time) ==
    LET lossR == L1Loss(Real(tgt_freq_hat), Real(tgt_freq))
        lossI == L1Loss(Imag(tgt_freq_hat), Imag(tgt_freq))
        lossT == L1Loss(tgt_time_hat, tgt_time)
        loss_dict == <<[key |-> "lossSpecR", val |-> lossR],
                       [key |-> "lossSpecI", val |-> lossI],
                       [key |-> "lossTime", val |-> lossT]>>
    IN <<SumValues(loss_dict), loss_dict>>

\* The tensors compute_losses is called with: estimates of every length up to
\* MaxLen with parts in 0..MaxVal, against targets of that length.
Complexes == [re : 0..MaxVal, im : 0..MaxVal]
FreqTensors == UNION {[1..n -> Complexes] : n \in 1..MaxLen}
TimeTensors == UNION {[1..n -> 0..MaxVal] : n \in 1..MaxLen}
FreqTarget(n) == [m \in 1..n |-> [re |-> 1, im |-> 0]]
TimeTarget(n) == [m \in 1..n |-> 1]

StackIdle == StackInit /\ zero_hidden_ok = FALSE
LossIdle == loss_args = <<>> /\ loss_ret = <<>>
GradIdle == grad_norm = 0 /\ models = 0 /\ norms_ret = <<>>

\* loss, loss_dict = self.compute_losses(tgt_freq_hat, tgt_freq, tgt_time_hat, tgt_time)
ComputeLosses ==
    /\ loss_args # <<>>
    /\ loss_ret = <<>>
    /\ loss_ret' = compute_losses(loss_args[1], loss_args[2], loss_args[3], loss_args[4])
    /\ UNCHANGED <<loss_args, stackVars, gradVars>>

LossInit ==
    /\ StackIdle
    /\ GradIdle
    /\ loss_args \in {<<f, FreqTarget(Len(f)), t, TimeTarget(Len(t))>> :
                        f \in FreqTensors, t \in TimeTensors}
    /\ loss_ret = <<>>

LossNext == ComputeLosses

\* compute_losses called once, on each of the argument tuples.
LossSpec == LossInit /\ [][LossNext]_vars

\* ----------------------------------- PLModel.tracked_gradient_global_only
\* Keys are strings, spelled as tuples of characters.
Contains(key, pat) ==
    \E p \in 1..(Len(key) - Len(pat) + 1) : SubSeq(key, p, p + Len(pat) - 1) = pat

\* The keys the original grad_norm may return.
NormKeys ==
    {<<"n", "_", "t", "o", "t", "a", "l">>,
     <<"n", "/", "w">>,
     <<"n", "/", "a", "_", "t", "o", "t", "a", "l", ".", "w">>,
     <<"t", "o", "t", "a", "l", "_">>,
     <<"_", "t", "o", "t", "a">>}
NormValues == {1, 2}
NormDicts == UNION {[S -> NormValues] : S \in SUBSET NormKeys}

\* dict(filter(lambda elem: '_total' in elem[0], norms.items()))
FilterTotalNoUnderscore(norms) ==
    [k \in {key \in DOMAIN norms : Contains(key, <<"t", "o", "t", "a", "l">>)} |-> norms[k]]

FilterTotal(norms) ==
    [k \in {key \in DOMAIN norms : Contains(key, <<"_", "t", "o", "t", "a", "l">>)} |-> norms[k]]

RECURSIVE CallWrapped(_, _)
\* Calling a function wrapped depth times by remove_per_weight_norms, when
\* the original returns norms: each f runs func, then filters.
CallWrapped(depth, norms) ==
    IF depth = 0 THEN norms ELSE FilterTotal(CallWrapped(depth - 1, norms))

\* PLModel(...): __init__ ends with self.tracked_gradient_global_only(), which
\* rebinds pl.utilities.grad_norm to a wrapper of its current value.
PLModelInit ==
    /\ models < MaxModels
    /\ models' = models + 1
    /\ grad_norm' = grad_norm + 1
    /\ UNCHANGED <<norms_ret, stackVars, lossVars>>

\* pl.utilities.grad_norm(module, norm_type), the original returning norms.
CallGradNorm ==
    /\ \E norms \in NormDicts :
         norms_ret' = [norms |-> norms, depth |-> grad_norm,
                       ret |-> CallWrapped(grad_norm, norms)]
    /\ UNCHANGED <<grad_norm, models, stackVars, lossVars>>

GradInit == StackIdle /\ LossIdle /\ GradIdle

GradNext == PLModelInit \/ CallGradNorm

\* PLModel constructions and grad_norm calls in any order.
GradSpec == GradInit /\ [][GradNext]_vars

Init == StackIdle /\ LossIdle /\ GradIdle

Next ==
    \/ Construct(Args)
    \/ \E n \in 1..MaxLayers, h \in 1..2 : ZeroParams(n, h)
    \/ \E shape \in InputShapes(cfg) : Call(shape)
    \/ ApplyBlock
    \/ Return

\* The forward pass: construction from configurations torch accepts, weights
\* set to zero between calls, and forward calls run block by block.
Spec == Init /\ [][Next]_vars

CtorInit == StackInit /\ zero_hidden_ok \in BOOLEAN /\ LossIdle /\ GradIdle

CtorNext == Construct(AnyArgs)

\* Construction alone, from every argument tuple, under either torch build.
CtorSpec == CtorInit /\ [][CtorNext]_vars

\* ------------------------------------------------------------------- claims
InCall == pc \in {"forward", "done", "error"}

\* The forward call in progress was given a Layout-T tensor of the configured
\* sizes: (B, k_subbands, t_timesteps, input_dim_size).
ValidInput ==
    /\ InCall
    /\ Len(x0.shape) = 4
    /\ x0.shape[2] = cfg.k_subbands
    /\ x0.shape[3] = cfg.t_timesteps
    /\ x0.shape[4] = cfg.input_dim_size

\* The 1-based place of element (a, b, c, d) in a contiguous tensor whose
\* axes 1, 2, 3 have sizes P, Q, R.
Flat(P, Q, R, a, b, c, d) == ((a * P + b) * Q + c) * R + d + 1

AtomOf(e) == (CHOOSE s \in e : s.kind = "x").id

BlockRan == ran # <<0, 0>>
RanBlock == bsrnn[ran[1]][ran[2]]

C2_ZeroLayersRejected ==
    /\ (pc # "new" /\ cfg.num_layers < 1) => pc = "ctor_error"
    /\ pc \in {"built", "forward", "done", "error"} => Len(bsrnn) >= 1

\* A stack built with num_layers < 1 holds zero pairs, and forward has
\* returned its argument unchanged.
C2_Witness == pc = "done" /\ cfg.num_layers < 1 /\ bsrnn = <<>> /\ cur = x0

\* The three conditions of C3 on the argument t of a block's forward.
ShapeMismatch(blk, t) ==
    \/ Len(t.shape) # 4
    \/ t.shape[2] # blk.group_dim_size
    \/ t.shape[4] # blk.input_dim_size

LayoutT(t) ==
    /\ t.ok
    /\ t.shape = x0.shape
    /\ \A m \in 1..Numel(x0.shape) : AtomOf(t.data[m]) = m

\* t holds them in Layout-K: element (b, k, t, n) of the input at place
\* (b, t, k, n) of shape (B, T, K, N).
LayoutK(t) ==
    LET B == x0.shape[1]
        K == x0.shape[2]
        T == x0.shape[3]
        N == x0.shape[4]
    IN  /\ t.ok
        /\ t.shape = <<B, T, K, N>>
        /\ \A b \in 0..(B - 1), k \in 0..(K - 1), tt \in 0..(T - 1), n \in 0..(N - 1) :
              AtomOf(t.data[Flat(T, K, N, b, tt, k, n)]) = Flat(K, T, N, b, k, tt, n)

ZeroBlockRan == BlockRan /\ RanBlock.params = 0 /\ cur.ok

SubBatch(x, lo, n) ==
    LET per == Numel(Tail(x.shape))
    IN Tensor(<<n>> \o Tail(x.shape),
              [i \in 1..(n * per) |-> x.data[lo * per + i]])

C7_UnweightedSum ==
    loss_ret # <<>> =>
        LET loss == loss_ret[1]
            d == loss_ret[2]
            r == L1Loss(Real(loss_args[1]), Real(loss_args[2]))
            im == L1Loss(Imag(loss_args[1]), Imag(loss_args[2]))
            t == L1Loss(loss_args[3], loss_args[4])
        IN  /\ loss[1] * (r[2] * im[2] * t[2])
                 = loss[2] * (r[1] * im[2] * t[2] + im[1] * r[2] * t[2] + t[1] * r[2] * im[2])
            /\ Len(d) = 3
            /\ {d[n].key : n \in 1..3} = {"lossSpecR", "lossSpecI", "lossTime"}
            /\ \A n \in 1..3 : d[n].val = CASE d[n].key = "lossSpecR" -> r
                                            [] d[n].key = "lossSpecI" -> im
                                            [] d[n].key = "lossTime" -> t

C7_Witness ==
    /\ loss_ret # <<>>
    /\ \A n \in 1..3 : loss_ret[2][n].val[1] > 0
    /\ Len(loss_args[1]) # Len(loss_args[3])

Positive(a) ==
    /\ a.k_subbands > 0
    /\ a.t_timesteps > 0
    /\ a.input_dim_size > 0
    /\ a.hidden_dim_size > 0

\* C8: a construction with a non-positive size or an unsupported recurrent
\* kind fails; one that succeeds has positive sizes and a supported kind.
C8_InvalidRejected ==
    /\ (pc # "new" /\ (~Positive(cfg) \/ cfg.rnn_type \notin RnnClasses)) => pc = "ctor_error"
    /\ pc = "built" => (Positive(cfg) /\ cfg.rnn_type \in RnnClasses)

\* A stack was constructed from non-positive sizes and an rnn_type torch.nn
\* does not have.
C8_Witness ==
    /\ pc = "built"
    /\ cfg.k_subbands <= 0
    /\ cfg.t_timesteps <= 0
    /\ cfg.input_dim_size <= 0
    /\ cfg.hidden_dim_size <= 0
    /\ cfg.rnn_type \notin NnNames

RECURSIVE FreshForward(_, _, _)
\* What pairs n .. of the stack return when every recurrence starts from zeros.
FreshForward(blocks, n, t) ==
    IF n > Len(blocks) \/ ~t.ok
    THEN t
    ELSE LET a == RNNModuleForwardFrom(blocks[n][1], t, 0)
             b == IF a.ok THEN RNNModuleForwardFrom(blocks[n][2], a, 0) ELSE a
         IN FreshForward(blocks, n + 1, b)

TotalKeys ==
    {<<"n", "_", "t", "o", "t", "a", "l">>,
     <<"n", "/", "a", "_", "t", "o", "t", "a", "l", ".", "w">>}

\* C10: n constructions nest n wrappers, and for every n >= 1 the patched
\* grad_norm returns exactly the original's entries whose key contains
\* '_total'.
C10_FilterIdempotent ==
    /\ grad_norm = models
    /\ (norms_ret # <<>> /\ norms_ret.depth >= 1) =>
          /\ DOMAIN norms_ret.ret = DOMAIN norms_ret.norms \cap TotalKeys
          /\ \A k \in DOMAIN norms_ret.ret : norms_ret.ret[k] = norms_ret.norms[k]

C10_Witness ==
    /\ norms_ret # <<>>
    /\ norms_ret.depth >= 2
    /\ DOMAIN norms_ret.norms = NormKeys
    /\ DOMAIN norms_ret.ret = TotalKeys

====
